---- MODULE Spec2Model ----
(***************************************************************************)
(* Break-reminder timer (src/src/main.rs): the RestReminderApp timer state *)
(* machine, the per-frame update() handler with its intent flags and       *)
(* window commands, and the tray listener thread started by init_tray.     *)
(*                                                                         *)
(* Time.  An Instant is opaque: the program only ever reads an anchor      *)
(* through start.elapsed().  A stored anchor is therefore represented by   *)
(* the time that has elapsed since it was taken, in seconds: Some(0) is    *)
(* Some(Instant::now()), and the clock advancing by d turns Some(e) into   *)
(* Some(e + d).  update() is single threaded; it is split at the points    *)
(* where it reads the clock or hands over to the next section, and pc      *)
(* holds its position.  The clock may advance before every clock read.     *)
(***************************************************************************)
EXTENDS Integers, Sequences, FiniteSets, TLC

\* ------------------------------------------------------------- bounds
\* Largest time (seconds) a phase is followed for.
MaxElapsed == 1500
\* Largest number of tray events the listener thread has not yet taken.
MaxPending == 1

\* Width in bits that stands for the 64 bits of u64.  Every u64 of the
\* program is a value below 2^U64Bits here, and the width is chosen so that
\* the largest product, (2^U64Bits - 1) * 60, is still an integer TLC holds.
U64Bits == 24

\* Clock advances between two clock reads (seconds).
StepSizes == {500, 1500}

\* Texts a user leaves in a duration field, as sequences of characters.
Texts == { <<"0">>, <<"5">>, <<"a">> }

\* ------------------------------------------------- program constants
DefaultWorkMinutes == 25
DefaultRestMinutes == 5
SecsPerMinute == 60

\* ------------------------------------------------------------ helpers
None == <<>>
Some(x) == <<x>>

Digits == <<"0", "1", "2", "3", "4", "5", "6", "7", "8", "9">>

DigitValue(c) == (CHOOSE i \in 1..10 : Digits[i] = c) - 1

IsDigit(c) == \E i \in 1..10 : Digits[i] = c

RECURSIVE DigitsValue(_)
DigitsValue(s) ==
    IF s = <<>> THEN 0
    ELSE DigitsValue(SubSeq(s, 1, Len(s) - 1)) * 10 + DigitValue(s[Len(s)])

\* The number of values of u64: u64::MAX + 1.
U64Range == 2 ^ U64Bits

\* str::parse::<u64>(): an optional leading "+", then one or more decimal
\* digits whose value is at most u64::MAX; anything else is Err.
parse(text) ==
    LET body == IF text # <<>> /\ text[1] = "+" THEN Tail(text) ELSE text
    IN  IF /\ body # <<>>
           /\ \A i \in 1..Len(body) : IsDigit(body[i])
           /\ DigitsValue(body) < U64Range
        THEN [ok |-> TRUE, v |-> DigitsValue(body)]
        ELSE [ok |-> FALSE, v |-> 0]

\* Whether the u64 multiplication `minutes * 60` leaves the range of u64.
overflows(m) == m * SecsPerMinute >= U64Range

\* Duration::from_secs(minutes * 60), in seconds, where the multiplication
\* returns: `*` on u64 is unchecked, so a build without overflow checks
\* (the release profile) keeps the low 64 bits of the product.  A build with
\* overflow checks (the dev profile) panics instead when overflows(m).
from_minutes(m) == (m * SecsPerMinute) % U64Range

\* impl Default for AppConfig
AppConfigDefault ==
    [work_minutes |-> DefaultWorkMinutes, rest_minutes |-> DefaultRestMinutes]

\* ------------------------------------------------- RestReminderApp
\* RestReminderApp::new: the struct's fields after construction.  The text
\* buffers work_input and rest_input are only read when a field loses
\* focus, in the frame that follows the user's last edit; they are the
\* `text` of commit_work_input and commit_rest_input.
new ==
    [ state |-> "Paused",
      start_time |-> None,
      time_remaining |-> from_minutes(AppConfigDefault.work_minutes),
      config |-> AppConfigDefault,
      is_initialized |-> FALSE,
      should_fullscreen |-> FALSE,
      was_fullscreen |-> FALSE,
      is_overlay_mode |-> FALSE,
      should_minimize |-> FALSE,
      should_hide |-> FALSE,
      should_show_from_tray |-> FALSE,
      should_quit |-> FALSE ]

\* Mutant of start_work: a paused countdown is resumed where it stopped.
start_work_resumes(self) ==
    [self EXCEPT !.state = "Working",
                 !.start_time = Some(0),
                 !.time_remaining = IF self.state = "Paused" THEN @
                                    ELSE from_minutes(self.config.work_minutes),
                 !.should_fullscreen = FALSE,
                 !.is_overlay_mode = FALSE]

start_work(self) ==
    [self EXCEPT !.state = "Working",
                 !.start_time = Some(0),
                 !.time_remaining = from_minutes(self.config.work_minutes),
                 !.should_fullscreen = FALSE,
                 !.is_overlay_mode = FALSE]

\* Mutant of start_rest: the fullscreen/overlay intent is forgotten.
start_rest_windowed(self) ==
    [self EXCEPT !.state = "Resting",
                 !.start_time = Some(0),
                 !.time_remaining = from_minutes(self.config.rest_minutes),
                 !.should_hide = FALSE]

start_rest(self) ==
    [self EXCEPT !.state = "Resting",
                 !.start_time = Some(0),
                 !.time_remaining = from_minutes(self.config.rest_minutes),
                 !.should_fullscreen = TRUE,
                 !.is_overlay_mode = TRUE,
                 !.should_hide = FALSE]

\* Mutant of pause_remaining: the subtraction without the floor.
pause_remaining_unfloored(remaining, elapsed) == remaining - elapsed

\* The subtraction in pause(): floored at Duration::ZERO.
pause_remaining(remaining, elapsed) ==
    IF elapsed < remaining THEN remaining - elapsed ELSE 0

\* Mutant of pause: the fullscreen/overlay intent is left as it was.
pause_keeps_overlay(self) ==
    [self EXCEPT !.time_remaining =
                     IF self.start_time # None
                     THEN pause_remaining(self.time_remaining, self.start_time[1])
                     ELSE self.time_remaining,
                 !.start_time = None,
                 !.state = "Paused"]

\* Mutant of pause: the anchor is kept.
pause_keeps_anchor(self) ==
    [self EXCEPT !.time_remaining =
                     IF self.start_time # None
                     THEN pause_remaining(self.time_remaining, self.start_time[1])
                     ELSE self.time_remaining,
                 !.state = "Paused",
                 !.should_fullscreen = FALSE,
                 !.is_overlay_mode = FALSE]

pause(self) ==
    [self EXCEPT !.time_remaining =
                     IF self.start_time # None
                     THEN pause_remaining(self.time_remaining, self.start_time[1])
                     ELSE self.time_remaining,
                 !.start_time = None,
                 !.state = "Paused",
                 !.should_fullscreen = FALSE,
                 !.is_overlay_mode = FALSE]

\* The expiry test of tick(): elapsed >= self.time_remaining.
expired(self) == self.start_time # None /\ self.start_time[1] >= self.time_remaining

\* Mutant of rest_expired: remaining is left as pause() set it.
rest_expired_no_reset(self) == pause([self EXCEPT !.should_minimize = TRUE])

\* The Resting branch of an expired tick().
rest_expired(self) ==
    [pause([self EXCEPT !.should_minimize = TRUE])
        EXCEPT !.time_remaining = from_minutes(self.config.work_minutes)]

\* Mutant of tick: the time by which a work phase overran is charged to the
\* rest that follows, which is skipped when the excess covers it.
tick_catches_up(self) ==
    IF self.start_time = None THEN self
    ELSE IF expired(self)
         THEN IF self.state = "Working"
              THEN LET excess == self.start_time[1] - self.time_remaining
                       rest == start_rest(self)
                   IN  IF excess >= rest.time_remaining /\ excess > 0
                       THEN rest_expired(rest)
                       ELSE [rest EXCEPT !.time_remaining = @ - excess]
              ELSE IF self.state = "Resting" THEN rest_expired(self)
              ELSE self
         ELSE [self EXCEPT !.time_remaining = self.time_remaining - self.start_time[1]]

\* tick() up to and including line 211: everything but the re-anchoring
\* `self.start_time = Some(Instant::now())`, which reads the clock again.
tick(self) ==
    IF self.start_time = None THEN self
    ELSE IF expired(self)
         THEN IF self.state = "Working" THEN start_rest(self)
              ELSE IF self.state = "Resting" THEN rest_expired(self)
              ELSE self
         ELSE [self EXCEPT !.time_remaining = self.time_remaining - self.start_time[1]]

\* Which branch of tick() is taken.
tick_branch(self) ==
    IF self.start_time = None THEN "no_anchor"
    ELSE IF ~expired(self) THEN "counted"
    ELSE IF self.state = "Working" THEN "work_expired"
    ELSE IF self.state = "Resting" THEN "rest_expired"
    ELSE "none"

\* Line 212 of tick(): the anchor is replaced by a fresh clock read.
reanchor(self) == [self EXCEPT !.start_time = Some(0)]

\* Mutant of skip_rest: skipping a rest starts the next work phase at once.
skip_rest_starts_work(self) == start_work([self EXCEPT !.should_minimize = TRUE])

\* The "skip rest" button of render_overlay.
skip_rest(self) ==
    [pause([self EXCEPT !.should_minimize = TRUE])
        EXCEPT !.time_remaining = from_minutes(self.config.work_minutes),
               !.is_overlay_mode = FALSE,
               !.should_fullscreen = FALSE]

\* The work-duration field of render_main losing focus with `text` in it.
commit_work_input(self, text) ==
    LET r == parse(text)
    IN  [self EXCEPT !.config.work_minutes = IF r.ok THEN r.v ELSE @]

\* The rest-duration field of render_main losing focus with `text` in it.
commit_rest_input(self, text) ==
    LET r == parse(text)
    IN  [self EXCEPT !.config.rest_minutes = IF r.ok THEN r.v ELSE @]

\* The "hide to tray" button of render_main.
hide_button(self) == [self EXCEPT !.should_hide = TRUE]

\* ------------------------------------------------ platform window
\* The window as the platform holds it; the viewport built in main() is
\* visible, not minimized and not fullscreen.
main_viewport == [visible |-> TRUE, minimized |-> FALSE, fullscreen |-> FALSE]

\* egui::ViewportCommand::Visible(b)
Visible(w, b) == [w EXCEPT !.visible = b]
\* egui::ViewportCommand::Minimized(b)
Minimized(w, b) == [w EXCEPT !.minimized = b]
\* egui::ViewportCommand::Fullscreen(b)
Fullscreen(w, b) == [w EXCEPT !.fullscreen = b]
\* egui::ViewportCommand::Focus: changes neither visibility nor size.
Focus(w) == w
\* winapi ShowWindow(hwnd, SW_HIDE)
SwHide(w) == [w EXCEPT !.visible = FALSE]
\* winapi ShowWindow(hwnd, SW_SHOW): shown in its current size and position.
SwShow(w) == [w EXCEPT !.visible = TRUE]
\* winapi ShowWindow(hwnd, SW_RESTORE): shown, and restored if minimized.
SwRestore(w) == [w EXCEPT !.visible = TRUE, !.minimized = FALSE]

\* ----------------------------------------------------------- state
VARIABLES
    app,                \* the RestReminderApp struct
    TRAY_SHOW_REQUEST,  \* static AtomicBool
    TRAY_QUIT_REQUEST,  \* static AtomicBool
    WINDOW_HANDLE,      \* static AtomicPtr: "null" or "hwnd"
    menu_channel,       \* MenuEvent::receiver(): undelivered menu ids
    tray_channel,       \* TrayIconEvent::receiver(): undelivered icon events
    window,             \* the platform window
    pc,                 \* position of the UI thread inside update()
    alive,              \* FALSE once std::process::exit(0) has run
    target_windows,     \* cfg(target_os = "windows") of the build
    phase,              \* history: true time since the running phase began
                        \* and the duration it began with; None when paused
    last_tick,          \* history: the branch tick() took in this frame
    last_excess,        \* history: elapsed - remaining at that tick if expired
    close_requested,    \* i.viewport().close_requested() of the current frame
    commands,           \* viewport commands update() has sent in this frame
    last_fullscreen     \* history: value of the latest Fullscreen command

vars == <<app, TRAY_SHOW_REQUEST, TRAY_QUIT_REQUEST, WINDOW_HANDLE, menu_channel,
          tray_channel, window, pc, alive, target_windows, phase, last_tick,
          last_excess, close_requested, commands, last_fullscreen>>

\* Ids of menu events: the two items of the tray menu, and an id that is
\* neither (the `_` arm of the listener's match).
MenuIds == {"show", "quit", "other"}

TrayIconEvents == {"ClickLeft", "ClickRight", "DoubleClickLeft", "DoubleClickRight"}

Init ==
    /\ app = new
    /\ TRAY_SHOW_REQUEST = FALSE
    /\ TRAY_QUIT_REQUEST = FALSE
    /\ WINDOW_HANDLE = "null"
    /\ menu_channel = <<>>
    /\ tray_channel = <<>>
    /\ window = main_viewport
    /\ pc = "idle"
    /\ alive = TRUE
    /\ target_windows \in BOOLEAN
    /\ phase = None
    /\ last_tick = "none"
    /\ last_excess = 0
    /\ close_requested = FALSE
    /\ commands = <<>>
    /\ last_fullscreen = None

\* The history variable after a step that takes the app from `before` to
\* `after`; `started` says that the step called start_work or start_rest.
phase_after(before, after, started) ==
    IF after.start_time = None THEN None
    ELSE IF started \/ after.state # before.state
         THEN Some([elapsed |-> 0, len |-> after.time_remaining])
         ELSE phase

\* The user can reach the window's widgets and its close button.
window_usable == window.visible /\ ~window.minimized

\* ------------------------------------------------- update(), by section
\* The close-request section (lines 397-402); d = [app, commands].
on_close_requested(d) ==
    IF ~d.app.should_quit
    THEN [d EXCEPT !.app.should_hide = TRUE,
                   !.commands = Append(@, "CancelClose")]
    ELSE d

\* Window-handle capture, quit check, tray request flags, close request
\* (lines 352-402), in a frame whose input has close_requested() = close.
update_begin(close) ==
    /\ alive /\ pc = "idle"
    /\ close => window_usable
    /\ WINDOW_HANDLE' = IF target_windows THEN "hwnd" ELSE WINDOW_HANDLE
    /\ IF app.should_quit
       THEN /\ alive' = FALSE
            /\ UNCHANGED <<app, TRAY_SHOW_REQUEST, TRAY_QUIT_REQUEST, pc,
                           close_requested, commands>>
       ELSE /\ LET show == TRAY_SHOW_REQUEST
                   quit == TRAY_QUIT_REQUEST
                   a1 == [app EXCEPT !.should_show_from_tray = IF show THEN TRUE ELSE @,
                                     !.should_quit = IF quit THEN TRUE ELSE @]
                   d0 == [app |-> a1, commands |-> <<>>]
                   d1 == IF close THEN on_close_requested(d0) ELSE d0
               IN  app' = d1.app /\ commands' = d1.commands
            /\ close_requested' = close
            /\ TRAY_SHOW_REQUEST' = FALSE
            /\ TRAY_QUIT_REQUEST' = FALSE
            /\ pc' = "tick"
            /\ UNCHANGED alive
    /\ UNCHANGED <<menu_channel, tray_channel, window, target_windows, phase,
                   last_tick, last_excess, last_fullscreen>>

UpdateBegin == \E close \in BOOLEAN : update_begin(close)

\* self.tick() (line 422) up to its second clock read.
Tick ==
    /\ alive /\ pc = "tick"
    /\ app' = tick(app)
    /\ pc' = IF app.start_time # None /\ ~expired(app) THEN "reanchor" ELSE "dispatch"
    /\ phase' = phase_after(app, app', FALSE)
    /\ last_tick' = tick_branch(app)
    /\ last_excess' = IF expired(app) THEN app.start_time[1] - app.time_remaining ELSE 0
    /\ UNCHANGED <<TRAY_SHOW_REQUEST, TRAY_QUIT_REQUEST, WINDOW_HANDLE, menu_channel,
                   tray_channel, window, alive, target_windows,
                   close_requested, commands, last_fullscreen>>

\* The re-anchoring clock read of tick() (line 212).
Reanchor ==
    /\ alive /\ pc = "reanchor"
    /\ app' = reanchor(app)
    /\ pc' = "dispatch"
    /\ UNCHANGED <<TRAY_SHOW_REQUEST, TRAY_QUIT_REQUEST, WINDOW_HANDLE, menu_channel,
                   tray_channel, window, alive, target_windows, phase, last_tick, last_excess,
                   close_requested, commands, last_fullscreen>>

\* The window-command sections of update(); d = [app, window, commands].
dispatch_hide(d) ==
    IF d.app.should_hide
    THEN [d EXCEPT !.app.should_hide = FALSE,
                   !.window = IF target_windows /\ WINDOW_HANDLE # "null"
                              THEN SwHide(Visible(@, FALSE))
                              ELSE Visible(@, FALSE),
                   !.commands = Append(@, "Visible(false)")]
    ELSE d

dispatch_show(d) ==
    IF d.app.should_show_from_tray
    THEN [d EXCEPT !.app.should_show_from_tray = FALSE,
                   !.window = LET w == Visible(Minimized(@, FALSE), TRUE)
                              IN  Focus(IF target_windows THEN SwRestore(w) ELSE w),
                   !.commands = @ \o <<"Minimized(false)", "Visible(true)",
                                       "Focus", "Focus", "Focus">>]
    ELSE d

dispatch_minimize(d) ==
    IF d.app.should_minimize
    THEN [d EXCEPT !.app.should_minimize = FALSE,
                   !.window = Minimized(@, TRUE),
                   !.commands = Append(@, "Minimized(true)")]
    ELSE d

dispatch_initialize(d) ==
    IF ~d.app.is_initialized
    THEN [d EXCEPT !.app.is_initialized = TRUE,
                   !.window = Fullscreen(@, FALSE),
                   !.commands = Append(@, "Fullscreen(false)")]
    ELSE d

\* Mutant of dispatch_fullscreen: the target is sent in every frame.
dispatch_fullscreen_level(d) ==
    [d EXCEPT !.app.was_fullscreen = d.app.should_fullscreen,
              !.window = LET w == Fullscreen(@, d.app.should_fullscreen)
                         IN  IF d.app.should_fullscreen THEN Focus(w) ELSE w,
              !.commands = IF d.app.should_fullscreen
                           THEN @ \o <<"Fullscreen(true)", "Focus">>
                           ELSE Append(@, "Fullscreen(false)")]

dispatch_fullscreen(d) ==
    IF d.app.should_fullscreen # d.app.was_fullscreen
    THEN [d EXCEPT !.app.was_fullscreen = d.app.should_fullscreen,
                   !.window = LET w == Fullscreen(@, d.app.should_fullscreen)
                              IN  IF d.app.should_fullscreen THEN Focus(w) ELSE w,
                   !.commands = IF d.app.should_fullscreen
                                THEN @ \o <<"Fullscreen(true)", "Focus">>
                                ELSE Append(@, "Fullscreen(false)")]
    ELSE d

dispatch(d) ==
    dispatch_fullscreen(dispatch_initialize(dispatch_minimize(
        dispatch_show(dispatch_hide(d)))))

\* egui::ViewportCommand::Fullscreen(b) as it appears in `commands`.
FullscreenCommand(b) == IF b THEN "Fullscreen(true)" ELSE "Fullscreen(false)"

IsFullscreen(command) == command \in {"Fullscreen(true)", "Fullscreen(false)"}

\* Lines 424-506.
Dispatch ==
    /\ alive /\ pc = "dispatch"
    /\ LET d == dispatch([app |-> app, window |-> window, commands |-> <<>>])
           fs == SelectSeq(d.commands, IsFullscreen)
       IN  /\ app' = d.app
           /\ window' = d.window
           /\ commands' = commands \o d.commands
           /\ last_fullscreen' = IF fs # <<>> THEN Some(fs[Len(fs)])
                                  ELSE last_fullscreen
    /\ pc' = "render"
    /\ UNCHANGED <<TRAY_SHOW_REQUEST, TRAY_QUIT_REQUEST, WINDOW_HANDLE, menu_channel,
                   tray_channel, alive, target_windows, phase, last_tick, last_excess,
                   close_requested>>

\* Section 5 of update() (lines 508-516): render_overlay or render_main,
\* whose widgets run the handler of at most one user interaction a frame.
\* The frame ends here; a close request that update() did not cancel closes
\* the viewport, run_native returns and main() with it.
Render(after, started) ==
    /\ alive /\ pc = "render"
    /\ app' = after
    /\ phase' = phase_after(app, after, started)
    /\ last_tick' = "none"
    /\ last_excess' = 0
    /\ pc' = "idle"
    /\ alive' = ~(close_requested /\ \A i \in 1..Len(commands) : commands[i] # "CancelClose")
    /\ close_requested' = FALSE
    /\ commands' = <<>>
    /\ UNCHANGED <<TRAY_SHOW_REQUEST, TRAY_QUIT_REQUEST, WINDOW_HANDLE, menu_channel,
                   tray_channel, window, target_windows, last_fullscreen>>

\* A frame in which no widget is used.
RenderOnly == Render(app, FALSE)

ClickStartWork ==
    /\ window_usable /\ ~app.is_overlay_mode
    /\ Render(start_work(app), TRUE)

ClickPause ==
    /\ window_usable /\ ~app.is_overlay_mode
    /\ Render(pause(app), FALSE)

ClickStartRest ==
    /\ window_usable /\ ~app.is_overlay_mode
    /\ Render(start_rest(app), TRUE)

ClickHide ==
    /\ window_usable /\ ~app.is_overlay_mode
    /\ Render(hide_button(app), FALSE)

CommitWorkInput ==
    /\ window_usable /\ ~app.is_overlay_mode
    /\ \E text \in Texts : Render(commit_work_input(app, text), FALSE)

CommitRestInput ==
    /\ window_usable /\ ~app.is_overlay_mode
    /\ \E text \in Texts : Render(commit_rest_input(app, text), FALSE)

ClickSkipRest ==
    /\ window_usable /\ app.is_overlay_mode
    /\ Render(skip_rest(app), FALSE)

\* ------------------------------------------------- tray listener thread
show_window_directly(w) ==
    IF target_windows
    THEN IF WINDOW_HANDLE # "null" THEN SwRestore(SwShow(w)) ELSE w
    ELSE w

\* Mutant of on_menu_event: "quit" falls through to the ignored ids.
on_menu_event_quit_ignored(id, t) ==
    IF id = "show" THEN [t EXCEPT !.window = show_window_directly(@)] ELSE t

\* The match on a menu id (lines 575-586); t = [window, alive].
on_menu_event(id, t) ==
    IF id = "show" THEN [t EXCEPT !.window = show_window_directly(@)]
    ELSE IF id = "quit" THEN [t EXCEPT !.alive = FALSE]
    ELSE t

\* Mutant of on_tray_icon_event: the button of the click is not looked at.
on_tray_icon_event_any_button(event, t) ==
    [t EXCEPT !.window = show_window_directly(@)]

\* The match on an icon event (lines 591-609).
on_tray_icon_event(event, t) ==
    IF event \in {"ClickLeft", "DoubleClickLeft"}
    THEN [t EXCEPT !.window = show_window_directly(@)]
    ELSE t

\* Mutant of TrayThread: the thread writes the intent flags of the app itself
\* (what process_tray_message does) instead of acting on the window/process.
TrayThread_sets_intent ==
    /\ alive
    /\ menu_channel # <<>> \/ tray_channel # <<>>
    /\ LET menu == menu_channel # <<>>
           icon == tray_channel # <<>>
           show == \/ menu /\ Head(menu_channel) = "show"
                   \/ icon /\ Head(tray_channel) \in {"ClickLeft", "DoubleClickLeft"}
           quit == menu /\ Head(menu_channel) = "quit"
       IN  /\ app' = [app EXCEPT !.should_show_from_tray = IF show THEN TRUE ELSE @,
                                 !.should_quit = IF quit THEN TRUE ELSE @]
           /\ menu_channel' = IF menu THEN Tail(menu_channel) ELSE <<>>
           /\ tray_channel' = IF icon THEN Tail(tray_channel) ELSE <<>>
    /\ UNCHANGED <<TRAY_SHOW_REQUEST, TRAY_QUIT_REQUEST, WINDOW_HANDLE, window, pc,
                   alive, target_windows, phase, last_tick, last_excess,
                   close_requested, commands, last_fullscreen>>

\* Mutant of TrayThread: a show event is posted to the main loop through
\* TRAY_SHOW_REQUEST instead of being handled by show_window_directly.
TrayThread_posts_request ==
    /\ alive
    /\ menu_channel # <<>> \/ tray_channel # <<>>
    /\ LET menu == menu_channel # <<>>
           quit == menu /\ Head(menu_channel) = "quit"
           icon == ~quit /\ tray_channel # <<>>
           show == \/ menu /\ Head(menu_channel) = "show"
                   \/ icon /\ Head(tray_channel) \in {"ClickLeft", "DoubleClickLeft"}
       IN  /\ TRAY_SHOW_REQUEST' = IF show THEN TRUE ELSE TRAY_SHOW_REQUEST
           /\ alive' = ~quit
           /\ menu_channel' = IF menu THEN Tail(menu_channel) ELSE <<>>
           /\ tray_channel' = IF icon THEN Tail(tray_channel) ELSE tray_channel
    /\ UNCHANGED <<app, TRAY_QUIT_REQUEST, WINDOW_HANDLE, window, pc,
                   target_windows, phase, last_tick, last_excess, close_requested, commands,
                   last_fullscreen>>

\* One iteration of the listener loop that finds an event (lines 567-618).
TrayThread ==
    /\ alive
    /\ menu_channel # <<>> \/ tray_channel # <<>>
    /\ LET t0 == [window |-> window, alive |-> TRUE]
           t1 == IF menu_channel # <<>> THEN on_menu_event(Head(menu_channel), t0) ELSE t0
           icon == t1.alive /\ tray_channel # <<>>
           t2 == IF icon THEN on_tray_icon_event(Head(tray_channel), t1) ELSE t1
       IN  /\ window' = t2.window
           /\ alive' = t2.alive
           /\ menu_channel' = IF menu_channel # <<>> THEN Tail(menu_channel) ELSE <<>>
           /\ tray_channel' = IF icon THEN Tail(tray_channel) ELSE tray_channel
    /\ UNCHANGED <<app, TRAY_SHOW_REQUEST, TRAY_QUIT_REQUEST, WINDOW_HANDLE, pc,
                   target_windows, phase, last_tick, last_excess,
                   close_requested, commands, last_fullscreen>>

\* ---------------------------------------------------------- environment
\* A menu event arrives on MenuEvent::receiver().
MenuClick ==
    /\ alive /\ Len(menu_channel) + Len(tray_channel) < MaxPending
    /\ \E id \in MenuIds : menu_channel' = Append(menu_channel, id)
    /\ UNCHANGED <<app, TRAY_SHOW_REQUEST, TRAY_QUIT_REQUEST, WINDOW_HANDLE,
                   tray_channel, window, pc, alive, target_windows, phase, last_tick, last_excess,
                   close_requested, commands, last_fullscreen>>

\* The user clicks the tray icon.
TrayIconClick ==
    /\ alive /\ Len(menu_channel) + Len(tray_channel) < MaxPending
    /\ \E event \in TrayIconEvents : tray_channel' = Append(tray_channel, event)
    /\ UNCHANGED <<app, TRAY_SHOW_REQUEST, TRAY_QUIT_REQUEST, WINDOW_HANDLE,
                   menu_channel, window, pc, alive, target_windows, phase, last_tick, last_excess,
                   close_requested, commands, last_fullscreen>>

\* The user restores the minimized window from the task bar.
TaskbarRestore ==
    /\ alive /\ window.visible /\ window.minimized
    /\ window' = Minimized(window, FALSE)
    /\ UNCHANGED <<app, TRAY_SHOW_REQUEST, TRAY_QUIT_REQUEST, WINDOW_HANDLE,
                   menu_channel, tray_channel, pc, alive, target_windows, phase, last_tick, last_excess,
                   close_requested, commands, last_fullscreen>>

\* The clock advances before one of update()'s clock reads: the one of tick(),
\* the re-anchoring one, or the one of a button handler.
Advance ==
    /\ alive /\ pc \in {"tick", "reanchor", "render"}
    /\ app.start_time # None
    /\ \E d \in StepSizes :
        /\ phase[1].elapsed + d <= MaxElapsed
        /\ app' = [app EXCEPT !.start_time = Some(@[1] + d)]
        /\ phase' = Some([phase[1] EXCEPT !.elapsed = @ + d])
    /\ UNCHANGED <<TRAY_SHOW_REQUEST, TRAY_QUIT_REQUEST, WINDOW_HANDLE, menu_channel,
                   tray_channel, window, pc, alive, target_windows, last_tick, last_excess,
                   close_requested, commands, last_fullscreen>>

Next ==
    \/ UpdateBegin
    \/ Tick
    \/ Reanchor
    \/ Dispatch
    \/ RenderOnly
    \/ ClickStartWork
    \/ ClickPause
    \/ ClickStartRest
    \/ ClickHide
    \/ CommitWorkInput
    \/ CommitRestInput
    \/ ClickSkipRest
    \/ TrayThread
    \/ MenuClick
    \/ TrayIconClick
    \/ TaskbarRestore
    \/ Advance

Spec == Init /\ [][Next]_vars

\* The listener thread loops for ever, so an event it can take is taken.
FairSpec == Spec /\ WF_vars(TrayThread)

\* ------------------------------------------- duration arithmetic
\* The duration fields and the three places that multiply a stored number
\* of minutes by 60, on their own: no clock, no tray and no window, so that
\* the whole range of u64 can be entered.

\* u64::to_string: the decimal digits of n.
RECURSIVE to_string(_)
to_string(n) ==
    IF n < 10 THEN <<Digits[n + 1]>>
    ELSE Append(to_string(n \div 10), Digits[(n % 10) + 1])

\* The largest number of minutes whose seconds are still a u64.
LargestExactMinutes == (U64Range - 1) \div SecsPerMinute

\* Texts left in a duration field: the largest minutes that fit, the
\* smallest that do not, u64::MAX, u64::MAX + 1 and a word.
DurationTexts ==
    { to_string(LargestExactMinutes), to_string(LargestExactMinutes + 1),
      to_string(U64Range - 1), to_string(U64Range), <<"a">> }

\* `minutes * 60` has overflowed in a build with overflow checks: the
\* multiplication panics and the process ends.
overflow_panic ==
    /\ alive' = FALSE
    /\ UNCHANGED app

\* A function that multiplies `minutes` by 60 is called and leaves `after`:
\* the product fits, or it wraps, or it panics, as the build decides.
multiplies(minutes, after) ==
    /\ \/ app' = after /\ UNCHANGED alive
       \/ overflows(minutes) /\ overflow_panic
    /\ UNCHANGED <<TRAY_SHOW_REQUEST, TRAY_QUIT_REQUEST, WINDOW_HANDLE,
                   menu_channel, tray_channel, window, pc, target_windows,
                   phase, last_tick, last_excess, close_requested, commands,
                   last_fullscreen>>

\* A duration field of render_main loses focus with `text` in it.
enters(after) ==
    /\ alive /\ ~app.is_overlay_mode
    /\ app' = after
    /\ UNCHANGED <<TRAY_SHOW_REQUEST, TRAY_QUIT_REQUEST, WINDOW_HANDLE,
                   menu_channel, tray_channel, window, pc, alive,
                   target_windows, phase, last_tick, last_excess,
                   close_requested, commands, last_fullscreen>>

EnterWorkMinutes == \E text \in DurationTexts : enters(commit_work_input(app, text))

EnterRestMinutes == \E text \in DurationTexts : enters(commit_rest_input(app, text))

\* The start button of render_main.
CallStartWork ==
    /\ alive /\ ~app.is_overlay_mode
    /\ multiplies(app.config.work_minutes, start_work(app))

\* The rest button of render_main, or tick() at the end of a work phase.
CallStartRest ==
    /\ alive /\ ~app.is_overlay_mode
    /\ multiplies(app.config.rest_minutes, start_rest(app))

\* tick() at the end of a rest.
CallRestExpired ==
    /\ alive /\ app.state = "Resting"
    /\ multiplies(app.config.work_minutes, rest_expired(app))

DurationNext ==
    \/ EnterWorkMinutes
    \/ EnterRestMinutes
    \/ CallStartWork
    \/ CallStartRest
    \/ CallRestExpired

DurationSpec == Init /\ [][DurationNext]_vars

\* ================================================================ claims

\* C1: in every reachable state the anchor (start_time) is set if and only
\* if the state is not Paused.
C1_AnchorIffRunning == (app.start_time # None) <=> (app.state # "Paused")

\* Skip-rest has just paused a rest phase.
C1_Witness ==
    /\ pc = "idle" /\ app.should_minimize
    /\ app.state = "Paused" /\ app.start_time = None

\* C2: a tick() that runs while Working with elapsed >= remaining leaves the
\* state Resting, remaining at the configured rest duration, the anchor set
\* and the fullscreen/overlay intent true.
C2_WorkExpiry ==
    [][(/\ Tick
        /\ app.state = "Working"
        /\ app.start_time # None
        /\ app.start_time[1] >= app.time_remaining)
       => (/\ app'.state = "Resting"
           /\ app'.time_remaining = app.config.rest_minutes * SecsPerMinute
           /\ app'.start_time # None
           /\ app'.should_fullscreen
           /\ app'.is_overlay_mode)]_vars

\* tick() has just ended a work phase.
C2_Witness ==
    /\ pc = "dispatch" /\ last_tick = "work_expired"
    /\ app.state = "Resting" /\ app.should_fullscreen

\* C3: a tick() that runs while Resting with elapsed >= remaining leaves the
\* state Paused, the anchor cleared, remaining at the configured work
\* duration, the minimize intent true and the fullscreen/overlay intent false.
C3_RestExpiry ==
    [][(/\ Tick
        /\ app.state = "Resting"
        /\ app.start_time # None
        /\ app.start_time[1] >= app.time_remaining)
       => (/\ app'.state = "Paused"
           /\ app'.start_time = None
           /\ app'.time_remaining = app.config.work_minutes * SecsPerMinute
           /\ app'.should_minimize
           /\ ~app'.should_fullscreen
           /\ ~app'.is_overlay_mode)]_vars

\* tick() has just ended a rest phase whose work duration is not zero.
C3_Witness ==
    /\ pc = "dispatch" /\ last_tick = "rest_expired"
    /\ app.state = "Paused" /\ app.should_minimize
    /\ app.time_remaining > 0

\* C4: with positive durations and no user action, the first tick() at or
\* after work_minutes * 60 s from start_work makes the state Resting with
\* remaining = rest_minutes * 60 s, the first tick() at or after a further
\* rest_minutes * 60 s makes it Paused with remaining = work_minutes * 60 s
\* and the minimize intent set, and the state never becomes Working by itself.
C4_Schedule ==
    [][/\ (/\ Tick
           /\ phase # None
           /\ app.config.work_minutes > 0 /\ app.config.rest_minutes > 0
           /\ phase[1].elapsed >= phase[1].len)
          => /\ (app.state = "Working"
                    /\ phase[1].len = app.config.work_minutes * SecsPerMinute)
                => (/\ app'.state = "Resting"
                    /\ app'.time_remaining = app.config.rest_minutes * SecsPerMinute)
             /\ (app.state = "Resting"
                    /\ phase[1].len = app.config.rest_minutes * SecsPerMinute)
                => (/\ app'.state = "Paused"
                    /\ app'.time_remaining = app.config.work_minutes * SecsPerMinute
                    /\ app'.should_minimize)
       /\ (app.state # "Working" /\ app'.state = "Working") => ClickStartWork]_vars

\* C5: pause() with the anchor set leaves remaining = max(0, remaining -
\* elapsed), never negative, unchanged when nothing has elapsed (the full
\* work duration right after start_work), the anchor cleared, state Paused.
C5_Pause ==
    [][(ClickPause /\ app.start_time # None)
       => LET e == app.start_time[1]
              r == app.time_remaining
          IN  /\ app'.time_remaining = (IF r - e > 0 THEN r - e ELSE 0)
              /\ app'.time_remaining >= 0
              /\ (app.state = "Working" /\ phase[1].elapsed = 0)
                    => app'.time_remaining = phase[1].len
              /\ app'.start_time = None
              /\ app'.state = "Paused"]_vars

\* A work phase of the default length has been paused part of the way
\* through (no text of Texts gives a duration between the two defaults).
C5_Witness ==
    /\ pc = "idle" /\ app.state = "Paused" /\ app.start_time = None
    /\ app.time_remaining > from_minutes(DefaultRestMinutes)
    /\ app.time_remaining < from_minutes(DefaultWorkMinutes)

\* C6: the stored work_minutes and rest_minutes are greater than zero in
\* every reachable state (a field committed with "0" or a non-numeric text
\* leaves the stored value unchanged).
C6_DurationsPositive ==
    app.config.work_minutes > 0 /\ app.config.rest_minutes > 0

\* Nothing ever sets the quit intent or either process-wide request flag:
\* no frame of update() begins with should_quit set.
QuitIntentNeverSet ==
    /\ ~app.should_quit /\ ~app.should_show_from_tray
    /\ ~TRAY_QUIT_REQUEST /\ ~TRAY_SHOW_REQUEST

\* C8: whenever the dispatch section has run with the state Resting, the
\* window has been commanded fullscreen and is visible.
C8_OverlayShown ==
    (pc = "render" /\ app.state = "Resting") => (window.fullscreen /\ window.visible)

\* The listener thread takes a "show" menu event or a left (double) click.
TakesShowEvent ==
    /\ TrayThread
    /\ \/ menu_channel # <<>> /\ Head(menu_channel) = "show"
       \/ /\ tray_channel # <<>>
          /\ Head(tray_channel) \in {"ClickLeft", "DoubleClickLeft"}
          /\ ~(menu_channel # <<>> /\ Head(menu_channel) = "quit")

\* C9: a "show" menu click or a left (double) click on the tray icon is
\* turned into a show request for the main loop.
C9_ShowRequestPosted == [][TakesShowEvent => TRAY_SHOW_REQUEST']_vars

\* C10: after a click on the tray "quit" item the process eventually
\* terminates, with no further user event.
C10_QuitTerminates ==
    (\E i \in 1..Len(menu_channel) : menu_channel[i] = "quit") ~> ~alive

\* The process has exited while its window was hidden to the tray.
C10_Witness == ~alive /\ ~window.visible

\* C11: every step of the tray listener thread leaves the app (timer state,
\* remaining, anchor, config and every intent flag) unchanged, as well as the
\* position of the main loop and the window handle it published; whatever the
\* thread hands to the main loop goes through the request flags or channels.
C11_ThreadLeavesApp == [][TrayThread => UNCHANGED <<app, pc, WINDOW_HANDLE>>]_vars

\* The thread has ended the process in the middle of a frame of a rest
\* phase, after tick() and before the window commands were dispatched.
C11_Witness ==
    /\ ~alive /\ pc = "dispatch"
    /\ app.state = "Resting" /\ app.should_fullscreen # app.was_fullscreen

\* The close-request section of a frame with a close request, entered with
\* the quit intent not set.
TakesCloseRequest == update_begin(TRUE) /\ ~app.should_quit /\ ~TRAY_QUIT_REQUEST

\* The close request is cancelled and becomes the hide intent; the timer is
\* not touched and the frame does not end the process.
CloseIntercepted ==
    /\ TakesCloseRequest
          => /\ alive'
             /\ app'.should_hide
             /\ commands' = <<"CancelClose">>
             /\ app'.state = app.state
             /\ app'.time_remaining = app.time_remaining
             /\ app'.start_time = app.start_time
             /\ app'.config = app.config
    /\ (close_requested /\ pc = "render" /\ pc' = "idle") => alive'

\* C12: a close request received while the quit intent is not set never
\* terminates the process: it is cancelled and sets the hide intent without
\* changing the timer, and the dispatch step of that frame leaves the window
\* hidden to the tray.
C12_CloseHidesToTray ==
    [][/\ CloseIntercepted
       /\ (Dispatch /\ close_requested) => ~window'.visible]_vars

\* How many times `command` occurs in a frame's commands.
Count(cmds, command) == Cardinality({i \in 1..Len(cmds) : cmds[i] = command})

\* A step that takes an intent flag from set to clear is a dispatch step
\* that sends the flag's command once.
ClearedByCommand(flag, command) ==
    (app[flag] /\ ~app'[flag]) => (Dispatch /\ Count(commands', command) = 1)

\* C13: every hide, show or minimize intent is acted on exactly once: a flag
\* is cleared only by a dispatch step that sends its window command, a
\* dispatch step sends the command of exactly the flags that are set, and
\* all three flags are false after each dispatch step.
C13_IntentActedOnce ==
    [][/\ ClearedByCommand("should_hide", "Visible(false)")
       /\ ClearedByCommand("should_show_from_tray", "Visible(true)")
       /\ ClearedByCommand("should_minimize", "Minimized(true)")
       /\ Dispatch
            => /\ Count(commands', "Visible(false)") = (IF app.should_hide THEN 1 ELSE 0)
               /\ Count(commands', "Visible(true)")
                     = (IF app.should_show_from_tray THEN 1 ELSE 0)
               /\ Count(commands', "Minimized(true)")
                     = (IF app.should_minimize THEN 1 ELSE 0)
               /\ ~app'.should_hide
               /\ ~app'.should_show_from_tray
               /\ ~app'.should_minimize]_vars

\* C14: in no frame are the hide intent and the show intent both set when
\* the dispatch section runs.
C14_HideShowExclusive ==
    pc = "dispatch" => ~(app.should_hide /\ app.should_show_from_tray)

\* The dispatch section is about to act on a close request while a "show"
\* click on the tray menu is waiting for the listener thread.
C14_Witness ==
    /\ pc = "dispatch" /\ app.should_hide /\ close_requested
    /\ menu_channel # <<>> /\ Head(menu_channel) = "show"

\* C15: while a phase runs, after every tick() remaining is the duration the
\* phase began with minus the total time since it began, remaining never
\* increases from tick to tick, and tick() finds the phase expired exactly
\* when that total time has reached the duration.
C15_ExactCountdown ==
    [][/\ (pc' = "dispatch" /\ last_tick' = "counted")
            => app'.time_remaining = phase'[1].len - phase'[1].elapsed
       /\ ((Tick \/ Reanchor) /\ app'.state = app.state)
            => app'.time_remaining <= app.time_remaining
       /\ (Tick /\ phase # None)
            => (expired(app) <=> phase[1].elapsed >= phase[1].len)]_vars

\* C16: from any state and any remaining, the start-work button leaves
\* Working with remaining = the current work_minutes * 60 s, a fresh anchor
\* and the fullscreen/overlay intent false, and the start-rest button leaves
\* Resting with remaining = the current rest_minutes * 60 s, a fresh anchor
\* and the fullscreen/overlay intent true.
C16_FreshPhase ==
    [][/\ ClickStartWork
            => /\ app'.state = "Working"
               /\ app'.time_remaining = app.config.work_minutes * SecsPerMinute
               /\ app'.start_time = Some(0)
               /\ ~app'.should_fullscreen /\ ~app'.is_overlay_mode
       /\ ClickStartRest
            => /\ app'.state = "Resting"
               /\ app'.time_remaining = app.config.rest_minutes * SecsPerMinute
               /\ app'.start_time = Some(0)
               /\ app'.should_fullscreen /\ app'.is_overlay_mode]_vars

\* A work phase has just been started with a work duration typed into the
\* field: remaining is that duration, not what remained before.
C16_Witness ==
    /\ pc = "idle" /\ app.state = "Working" /\ app.start_time = Some(0)
    /\ app.config.work_minutes = 5
    /\ app.time_remaining = 5 * SecsPerMinute

\* C17: in each dispatch step the edge-triggered section sends a Fullscreen
\* command carrying the target exactly when the target differs from the
\* last-applied value (the first frame's start-up Fullscreen(false) comes
\* before it), followed by Focus when entering fullscreen; after the step
\* last-applied equals the target; and after start-up no Fullscreen command
\* carries the value of the one sent before it.
C17_FullscreenEdge ==
    [][Dispatch =>
        LET fs == SelectSeq(commands', IsFullscreen)
            startup == IF app.is_initialized THEN <<>> ELSE <<"Fullscreen(false)">>
            differs == app.should_fullscreen # app.was_fullscreen
            edge == IF differs THEN <<FullscreenCommand(app.should_fullscreen)>>
                    ELSE <<>>
        IN  /\ fs = startup \o edge
            /\ (differs /\ app.should_fullscreen)
                  => \E i \in 1..(Len(commands') - 1) :
                        commands'[i] = "Fullscreen(true)" /\ commands'[i + 1] = "Focus"
            /\ app'.should_fullscreen = app.should_fullscreen
            /\ app'.was_fullscreen = app'.should_fullscreen
            /\ (app.is_initialized /\ differs) => last_fullscreen # Some(edge[1])
    ]_vars

\* The dispatch step at the end of a rest has left fullscreen and minimized
\* the window.
C17_Witness ==
    /\ pc = "render" /\ Count(commands, "Fullscreen(false)") = 1
    /\ last_fullscreen = Some("Fullscreen(false)")
    /\ window.minimized /\ ~window.fullscreen /\ ~app.was_fullscreen

\* The listener thread takes only events it has no arm for: a menu id that
\* is neither "show" nor "quit", a right click, a right double click.
TakesIgnoredEvents ==
    /\ TrayThread
    /\ menu_channel # <<>> => Head(menu_channel) \notin {"show", "quit"}
    /\ tray_channel # <<>> => Head(tray_channel) \notin {"ClickLeft", "DoubleClickLeft"}

\* C18: a menu event with an id other than "show" or "quit", a right click
\* and a non-left double click cause no show request, no quit and no change
\* of any state: the events are consumed and the thread keeps running.
C18_IgnoredEvents ==
    [][TakesIgnoredEvents
        => /\ alive'
           /\ ~TRAY_SHOW_REQUEST' /\ ~TRAY_QUIT_REQUEST'
           /\ UNCHANGED <<app, window, WINDOW_HANDLE, pc, target_windows, phase,
                          last_tick, last_excess, close_requested, commands,
                          last_fullscreen>>
           /\ menu_channel' = IF menu_channel # <<>> THEN Tail(menu_channel) ELSE <<>>
           /\ tray_channel' = IF tray_channel # <<>> THEN Tail(tray_channel) ELSE <<>>
    ]_vars

\* On Windows, with the window hidden to the tray and its handle published
\* (a left click would show it), a menu event with an unknown id is waiting
\* for the listener thread.
C18_Witness ==
    /\ alive /\ target_windows /\ WINDOW_HANDLE = "hwnd" /\ ~window.visible
    /\ menu_channel = <<"other">>

\* C19: a tick() that finds the phase expired makes one transition whatever
\* the excess of elapsed over remaining: Working becomes Resting with the
\* full rest duration and a fresh anchor, Resting becomes Paused with the
\* full work duration; the excess is not charged to the next phase.
C19_OneTransition ==
    [][(Tick /\ expired(app))
        => /\ app.state = "Working"
                => /\ app'.state = "Resting"
                   /\ app'.time_remaining = app.config.rest_minutes * SecsPerMinute
                   /\ app'.start_time = Some(0)
                   /\ phase' = Some([elapsed |-> 0, len |-> app'.time_remaining])
           /\ app.state = "Resting"
                => /\ app'.state = "Paused"
                   /\ app'.time_remaining = app.config.work_minutes * SecsPerMinute
                   /\ app'.start_time = None]_vars

\* tick() has just ended a work phase that overran by more than the whole
\* (positive) rest duration: the rest phase starts with all of it.
C19_Witness ==
    /\ pc = "dispatch" /\ last_tick = "work_expired"
    /\ app.config.work_minutes > 0
    /\ app.state = "Resting" /\ app.start_time = Some(0)
    /\ app.time_remaining > 0 /\ last_excess > app.time_remaining

\* C20: in every reachable state is_overlay_mode equals should_fullscreen,
\* and both are true exactly when the state is Resting.
C20_OverlayIffResting ==
    /\ app.is_overlay_mode = app.should_fullscreen
    /\ app.is_overlay_mode <=> (app.state = "Resting")

\* The start-rest button has just started a rest from the main view: the
\* overlay is wanted and the window is not fullscreen yet.
C20_Witness ==
    /\ pc = "idle" /\ app.state = "Resting"
    /\ app.is_overlay_mode /\ app.should_fullscreen /\ ~app.was_fullscreen

\* The frame's render step while Resting: render_overlay is drawn, which
\* offers the skip-rest button and nothing else.
OverlayOffersOnlySkip ==
    (pc = "render" /\ pc' = "idle" /\ app.state = "Resting")
        => (ClickSkipRest \/ RenderOnly) /\ app' \in {app, skip_rest(app)}

\* A step that leaves Resting.
LeavesResting == app.state = "Resting" /\ app'.state # "Resting"

\* C21: while Resting the only user action offered is skip-rest, and every
\* step that leaves Resting is rest expiry or skip-rest and leads to Paused
\* (never directly to Working) with remaining = work_minutes * 60 s, the
\* minimize intent set and the overlay/fullscreen intent cleared.
C21_RestingLeadsToPaused ==
    [][/\ OverlayOffersOnlySkip
       /\ LeavesResting =>
            /\ (Tick /\ expired(app)) \/ ClickSkipRest
            /\ app'.state = "Paused"
            /\ app'.time_remaining = app.config.work_minutes * SecsPerMinute
            /\ app'.should_minimize
            /\ ~app'.should_fullscreen /\ ~app'.is_overlay_mode]_vars

\* Skip-rest has just been pressed on a fullscreen overlay: the app is
\* Paused with a full work phase, the window is still fullscreen and the
\* minimize intent waits for the next frame.
C21_Witness ==
    /\ pc = "idle" /\ app.state = "Paused" /\ app.should_minimize
    /\ app.was_fullscreen /\ window.fullscreen /\ ~app.should_fullscreen
    /\ app.config.work_minutes > 0
    /\ app.time_remaining = app.config.work_minutes * SecsPerMinute

\* C22: for every duration value the input fields accept (any text that
\* parses as a u64), start_work, start_rest and rest expiry return with
\* remaining equal to exactly minutes * 60 seconds: the multiplication
\* neither panics on overflow nor wraps around the 64-bit range.
C22_ExactSeconds ==
    [][/\ CallStartWork =>
            alive' /\ app'.time_remaining = app.config.work_minutes * SecsPerMinute
       /\ CallStartRest =>
            alive' /\ app'.time_remaining = app.config.rest_minutes * SecsPerMinute
       /\ CallRestExpired =>
            alive' /\ app'.time_remaining = app.config.work_minutes * SecsPerMinute]_vars

====
